---- MODULE Spec2Model ----
(***************************************************************************)
(* Product catalog service: the request handlers of service/routes.py over *)
(* the Product record model and its relational store.                      *)
(*                                                                         *)
(* Every handler runs inside one request-scoped store session: a handler   *)
(* is one atomic step from the request to the response, and the store      *)
(* changes only where the handler commits (create, update, delete).        *)
(*                                                                         *)
(* The handlers are those of service/routes.py. The record model and the   *)
(* query layer (service/models.py) and the error handlers are written from *)
(* sections 3, 4.1 and 7 of the specification.                             *)
(*                                                                         *)
(* Two specifications share the handlers: Spec sends every content type    *)
(* and body to the write handlers, SpecList sends every query string to    *)
(* the listing over stores built by valid writes.                          *)
(***************************************************************************)
EXTENDS Integers, Sequences, FiniteSets, TLC

VARIABLES products, next_id, request, response, sessions

vars == <<products, next_id, request, response, sessions>>

(***************************************************************************)
(* Bounds                                                                  *)
(***************************************************************************)
\* PUT requests that may be between Product.find and product.update at once.
MaxInflight == 2

\* The store hands out the ids 1..MaxId; a create is not taken beyond it.
MaxId == 2

\* Ids a request path may carry: 0 is never assigned, so it is always unknown.
PathIds == 0..MaxId

(***************************************************************************)
(* HTTP status codes (service.common.status)                               *)
(***************************************************************************)
HTTP_200_OK == 200
HTTP_201_CREATED == 201
HTTP_204_NO_CONTENT == 204
HTTP_400_BAD_REQUEST == 400
HTTP_404_NOT_FOUND == 404
HTTP_415_UNSUPPORTED_MEDIA_TYPE == 415
HTTP_500_INTERNAL_SERVER_ERROR == 500

(***************************************************************************)
(* Record model: Category, Decimal prices, Product rows                    *)
(***************************************************************************)
\* The members of the Category enumeration, by name; a member is its position.
CategoryNames == <<"UNKNOWN", "CLOTHS", "FOOD", "HOUSEWARES", "AUTOMOTIVE", "TOOLS">>

Category == 1..Len(CategoryNames)

\* hasattr(Category, text): text is the name of a member.
IsCategoryName(text) == \E c \in Category : CategoryNames[c] = text

\* getattr(Category, text), for a text that names a member.
CategoryOf(text) == CHOOSE c \in Category : CategoryNames[c] = text

\* str.upper() on the texts the requests carry.
Upper(text) ==
  CASE text = "food" -> "FOOD"
    [] text = "cloths" -> "CLOTHS"
    [] text = "bogus" -> "BOGUS"
    [] OTHER -> text

\* Decimal(text): the unscaled digits and the number of fraction digits.
DecimalOf(text) ==
  CASE text = "12.50" -> <<1250, 2>>
    [] text = "12.5" -> <<125, 1>>
    [] text = "7" -> <<7, 0>>

\* str(decimal): the text that keeps the scale of the decimal.
StrOfDecimal(d) ==
  CASE d = <<1250, 2>> -> "12.50"
    [] d = <<125, 1>> -> "12.5"
    [] d = <<7, 0>> -> "7"

\* obj.attr = value
SetAttr(obj, attr, value) == (attr :> value) @@ obj

\* Product(): an object with no attribute set yet.
NewProduct == [k \in {} |-> k]

\* Product.deserialize(data): the attributes are assigned in order, and the
\* first bad key stops it with a DataValidationError; obj is then the object
\* with the assignments made so far.
deserialize(obj, data) ==
  IF "name" \notin DOMAIN data
  THEN [ok |-> FALSE, obj |-> obj, error |-> "Invalid product: missing name"]
  ELSE
    LET o1 == SetAttr(obj, "name", data.name)
        o2 == IF "description" \in DOMAIN data
              THEN SetAttr(o1, "description", data.description) ELSE o1
        o3 == IF "price" \in DOMAIN data
              THEN SetAttr(o2, "price", DecimalOf(data.price)) ELSE o2
        o4 == IF "available" \in DOMAIN data
              THEN SetAttr(o3, "available", data.available) ELSE o3
    IN IF "category" \notin DOMAIN data
       THEN [ok |-> TRUE, obj |-> o4, error |-> ""]
       ELSE IF IsCategoryName(Upper(data.category))
            THEN [ok |-> TRUE,
                  obj |-> SetAttr(o4, "category", CategoryOf(Upper(data.category))),
                  error |-> ""]
            ELSE [ok |-> FALSE, obj |-> o4, error |-> "Invalid attribute: category"]

\* Product.serialize(): the wire form of a row.
serialize(obj) ==
  [id |-> obj.id,
   name |-> obj.name,
   description |-> obj.description,
   price |-> StrOfDecimal(obj.price),
   available |-> obj.available,
   category |-> CategoryNames[obj.category]]

(***************************************************************************)
(* Query layer over the store table (products: id -> row)                  *)
(***************************************************************************)
RECURSIVE RowsInIdOrder(_, _)
\* The rows of table with the ids in ids, in ascending id order.
RowsInIdOrder(table, ids) ==
  IF ids = {} THEN <<>>
  ELSE LET m == CHOOSE x \in ids : \A y \in ids : x <= y
       IN <<table[m]>> \o RowsInIdOrder(table, ids \ {m})

\* Product.find(id): the id of the row, or {} for None.
find(table, product_id) == IF product_id \in DOMAIN table THEN {product_id} ELSE {}

\* Product.all()
all(table) == RowsInIdOrder(table, DOMAIN table)

\* Product.find_by_name(name)
find_by_name(table, name) ==
  RowsInIdOrder(table, {i \in DOMAIN table : table[i].name = name})

\* Product.find_by_category(category)
find_by_category(table, category) ==
  RowsInIdOrder(table, {i \in DOMAIN table : table[i].category = category})

\* Product.find_by_availability(available), for a boolean.
find_by_availability(table, available) ==
  RowsInIdOrder(table, {i \in DOMAIN table : table[i].available = available})

\* product.create(): the store assigns the next id and commits the row.
create(table, id, obj) == (id :> SetAttr(obj, "id", id)) @@ table

\* product.update(): commits the changed row under its id.
update(table, obj) == [table EXCEPT ![obj.id] = obj]

\* product.delete(): removes the row and commits.
delete(table, id) == [i \in DOMAIN table \ {id} |-> table[i]]

(***************************************************************************)
(* Requests                                                                *)
(***************************************************************************)
\* request.headers: with or without a Content-Type.
NoHeaders == [k \in {} |-> k]

ContentType(text) == [Content_Type |-> text]

JsonHeaders == ContentType("application/json")

HeaderSets == {NoHeaders, ContentType("text/plain"), JsonHeaders}

\* request.args: the query parameters of GET /products; an absent key is None.
NoArgs == [k \in {} |-> k]

\* JSON bodies: every body carries id, description, price and available, with
\* or without name, and with a category text that may name no member. The
\* id in a body is the first id the store assigns: it is the id of the
\* record in the path, of another record, or of none.
Bodies(names, descriptions, flags, categories) ==
  LET rest == [id : {1}, description : descriptions, price : {"12.50"},
               available : flags, category : categories]
  IN rest \cup {SetAttr(r, "name", n) : r \in rest, n \in names}

\* A request body that is not JSON text.
NotJson == [raw |-> "bad data"]

\* request.get_json(): the parsed body; a body that does not parse aborts
\* the request with 400.
get_json(body) ==
  IF "raw" \in DOMAIN body THEN [ok |-> FALSE, data |-> body]
  ELSE [ok |-> TRUE, data |-> body]

\* Bodies of the write-side specification: fixed availability, one member.
WriteBodies ==
  Bodies({"", "a"}, {"d1", "d2"}, {TRUE}, {"FOOD", "BOGUS"}) \cup {NotJson}

\* The request and response of a handler that has not run yet.
NoRequest == [method |-> "", rule |-> "", product_id |-> 0,
              headers |-> NoHeaders, data |-> NoArgs, args |-> NoArgs]

NoResponse == [status |-> 0, body |-> "", headers |-> NoHeaders]

Request(method, rule, product_id, headers, data, args) ==
  [method |-> method, rule |-> rule, product_id |-> product_id,
   headers |-> headers, data |-> data, args |-> args]

Response(status, body, headers) ==
  [status |-> status, body |-> body, headers |-> headers]

\* abort(status, message): the error handlers answer {message: ...}.
Abort(status, message) == Response(status, [message |-> message], NoHeaders)

\* f"No product found with id {product_id}"
NotFoundMessage(product_id) == <<"No product found with id ", product_id>>

\* url_for("get_products", product_id=id, _external=True)
url_for(product_id) == <<"products", product_id>>

(***************************************************************************)
(* Handlers                                                                *)
(***************************************************************************)
\* Faulty variant: a request without a Content-Type header goes on.
check_content_type_lenient(headers, content_type) ==
  IF "Content_Type" \notin DOMAIN headers THEN TRUE
  ELSE IF headers.Content_Type = content_type THEN TRUE
  ELSE FALSE

\* check_content_type(content_type): TRUE when the handler goes on, FALSE
\* when it aborts with 415.
check_content_type(headers, content_type) ==
  IF "Content_Type" \notin DOMAIN headers THEN FALSE
  ELSE IF headers.Content_Type = content_type THEN TRUE
  ELSE FALSE

UnsupportedMediaType ==
  Abort(HTTP_415_UNSUPPORTED_MEDIA_TYPE, "Content-Type must be application/json")

\* The answer to a body that get_json() cannot parse.
BadRequest == Abort(HTTP_400_BAD_REQUEST, "Bad Request")

\* GET /health
healthcheck ==
  /\ request' = Request("GET", "/health", 0, NoHeaders, NoArgs, NoArgs)
  /\ response' = Response(HTTP_200_OK, [status |-> 200, message |-> "OK"], NoHeaders)
  /\ UNCHANGED <<products, next_id, sessions>>

\* Faulty variant: the record is answered but product.create() is left out.
create_products_unsaved(table, id, headers, body) ==
  IF ~check_content_type(headers, "application/json")
  THEN [response |-> UnsupportedMediaType, products |-> table, next_id |-> id]
  ELSE IF ~get_json(body).ok
  THEN [response |-> BadRequest, products |-> table, next_id |-> id]
  ELSE
    LET data == get_json(body).data
        product == deserialize(NewProduct, data)
    IN IF ~product.ok
       THEN [response |-> Abort(HTTP_400_BAD_REQUEST, product.error),
             products |-> table, next_id |-> id]
       ELSE [response |-> Response(HTTP_201_CREATED,
                                   serialize(SetAttr(product.obj, "id", id)),
                                   [Location |-> url_for(id)]),
             products |-> table, next_id |-> id]

\* Faulty variant: the record is saved under the id its body carries, not
\* under an id the store assigns.
create_products_body_id(table, id, headers, body) ==
  IF ~check_content_type(headers, "application/json")
  THEN [response |-> UnsupportedMediaType, products |-> table, next_id |-> id]
  ELSE IF ~get_json(body).ok
  THEN [response |-> BadRequest, products |-> table, next_id |-> id]
  ELSE
    LET data == get_json(body).data
        product == deserialize(NewProduct, data)
        saved == create(table, data.id, product.obj)
    IN IF ~product.ok
       THEN [response |-> Abort(HTTP_400_BAD_REQUEST, product.error),
             products |-> table, next_id |-> id]
       ELSE [response |-> Response(HTTP_201_CREATED, serialize(saved[data.id]),
                                   [Location |-> url_for(data.id)]),
             products |-> saved, next_id |-> id]

\* What POST /products answers and commits: [response, products, next_id].
create_products_result(table, id, headers, body) ==
  IF ~check_content_type(headers, "application/json")
  THEN [response |-> UnsupportedMediaType, products |-> table, next_id |-> id]
  ELSE IF ~get_json(body).ok
  THEN [response |-> BadRequest, products |-> table, next_id |-> id]
  ELSE
    LET data == get_json(body).data
        product == deserialize(NewProduct, data)
        saved == create(table, id, product.obj)
    IN IF ~product.ok
       THEN [response |-> Abort(HTTP_400_BAD_REQUEST, product.error),
             products |-> table, next_id |-> id]
       ELSE [response |-> Response(HTTP_201_CREATED, serialize(saved[id]),
                                   [Location |-> url_for(id)]),
             products |-> saved, next_id |-> id + 1]

\* POST /products
create_products(headers, data) ==
  LET r == create_products_result(products, next_id, headers, data)
  IN /\ r.next_id <= MaxId + 1
     /\ request' = Request("POST", "/products", 0, headers, data, NoArgs)
     /\ response' = r.response
     /\ products' = r.products
     /\ next_id' = r.next_id
     /\ UNCHANGED sessions

\* What GET /products/<id> answers.
get_products_response(table, product_id) ==
  LET product_found == find(table, product_id)
  IN IF product_found = {}
     THEN Abort(HTTP_404_NOT_FOUND, NotFoundMessage(product_id))
     ELSE Response(HTTP_200_OK, serialize(table[product_id]), NoHeaders)

\* Faulty variant: the row that is read is deleted from the store.
get_products_and_delete(product_id) ==
  /\ request' = Request("GET", "/products/<id>", product_id, NoHeaders, NoArgs, NoArgs)
  /\ response' = get_products_response(products, product_id)
  /\ products' = delete(products, product_id)
  /\ UNCHANGED <<next_id, sessions>>

\* GET /products/<id>
get_products(product_id) ==
  /\ request' = Request("GET", "/products/<id>", product_id, NoHeaders, NoArgs, NoArgs)
  /\ response' = get_products_response(products, product_id)
  /\ UNCHANGED <<products, next_id, sessions>>

\* Faulty variant: a body that fails deserialization is answered 400, but
\* the assignments made to the found row before the failure are committed.
update_product_commit_partial(table, product_id, headers, body) ==
  IF ~check_content_type(headers, "application/json")
  THEN [response |-> UnsupportedMediaType, products |-> table]
  ELSE IF ~get_json(body).ok
  THEN [response |-> BadRequest, products |-> table]
  ELSE IF find(table, product_id) = {}
  THEN [response |-> Abort(HTTP_404_NOT_FOUND, NotFoundMessage(product_id)),
        products |-> table]
  ELSE
    LET data == get_json(body).data
        product_found_deserializable == deserialize(table[product_id], data)
        saved == update(table, product_found_deserializable.obj)
    IN IF ~product_found_deserializable.ok
       THEN [response |-> Abort(HTTP_400_BAD_REQUEST, product_found_deserializable.error),
             products |-> saved]
       ELSE [response |-> Response(HTTP_200_OK, serialize(saved[product_id]), NoHeaders),
             products |-> saved]

\* Faulty variant: the changed row is answered but update() is left out.
update_product_no_commit(table, product_id, headers, body) ==
  IF ~check_content_type(headers, "application/json")
  THEN [response |-> UnsupportedMediaType, products |-> table]
  ELSE IF ~get_json(body).ok
  THEN [response |-> BadRequest, products |-> table]
  ELSE IF find(table, product_id) = {}
  THEN [response |-> Abort(HTTP_404_NOT_FOUND, NotFoundMessage(product_id)),
        products |-> table]
  ELSE
    LET data == get_json(body).data
        product_found_deserializable == deserialize(table[product_id], data)
    IN IF ~product_found_deserializable.ok
       THEN [response |-> Abort(HTTP_400_BAD_REQUEST, product_found_deserializable.error),
             products |-> table]
       ELSE [response |-> Response(HTTP_200_OK,
                                   serialize(product_found_deserializable.obj), NoHeaders),
             products |-> table]

\* Faulty variant: the body is validated before the id is looked up.
update_product_body_first(table, product_id, headers, body) ==
  IF ~check_content_type(headers, "application/json")
  THEN [response |-> UnsupportedMediaType, products |-> table]
  ELSE IF ~get_json(body).ok
  THEN [response |-> BadRequest, products |-> table]
  ELSE IF ~deserialize(NewProduct, get_json(body).data).ok
  THEN [response |-> Abort(HTTP_400_BAD_REQUEST,
                           deserialize(NewProduct, get_json(body).data).error),
        products |-> table]
  ELSE IF find(table, product_id) = {}
  THEN [response |-> Abort(HTTP_404_NOT_FOUND, NotFoundMessage(product_id)),
        products |-> table]
  ELSE
    LET data == get_json(body).data
        product_found_deserializable == deserialize(table[product_id], data)
        saved == update(table, product_found_deserializable.obj)
    IN [response |-> Response(HTTP_200_OK, serialize(saved[product_id]), NoHeaders),
        products |-> saved]

\* What PUT /products/<id> answers and commits: [response, products]. The
\* found row is changed in the request's session; a request that aborts
\* releases the session without a commit.
update_product_result(table, product_id, headers, body) ==
  IF ~check_content_type(headers, "application/json")
  THEN [response |-> UnsupportedMediaType, products |-> table]
  ELSE IF ~get_json(body).ok
  THEN [response |-> BadRequest, products |-> table]
  ELSE IF find(table, product_id) = {}
  THEN [response |-> Abort(HTTP_404_NOT_FOUND, NotFoundMessage(product_id)),
        products |-> table]
  ELSE
    LET data == get_json(body).data
        product_found_deserializable == deserialize(table[product_id], data)
        saved == update(table, product_found_deserializable.obj)
    IN IF ~product_found_deserializable.ok
       THEN [response |-> Abort(HTTP_400_BAD_REQUEST, product_found_deserializable.error),
             products |-> table]
       ELSE [response |-> Response(HTTP_200_OK, serialize(saved[product_id]), NoHeaders),
             products |-> saved]

\* PUT /products/<id>
update_product(product_id, headers, data) ==
  LET r == update_product_result(products, product_id, headers, data)
  IN /\ request' = Request("PUT", "/products/<id>", product_id, headers, data, NoArgs)
     /\ response' = r.response
     /\ products' = r.products
     /\ UNCHANGED <<next_id, sessions>>

\* Faulty variant: the found row is answered 204 but delete() is left out.
delete_product_no_delete(table, product_id) ==
  IF find(table, product_id) = {}
  THEN [response |-> Abort(HTTP_404_NOT_FOUND, NotFoundMessage(product_id)),
        products |-> table]
  ELSE [response |-> Response(HTTP_204_NO_CONTENT, "", NoHeaders),
        products |-> table]

\* Faulty variant: an id that is not stored is answered 204 as well.
delete_product_idempotent(table, product_id) ==
  IF find(table, product_id) = {}
  THEN [response |-> Response(HTTP_204_NO_CONTENT, "", NoHeaders),
        products |-> table]
  ELSE [response |-> Response(HTTP_204_NO_CONTENT, "", NoHeaders),
        products |-> delete(table, product_id)]

\* What DELETE /products/<id> answers and commits: [response, products].
delete_product_result(table, product_id) ==
  IF find(table, product_id) = {}
  THEN [response |-> Abort(HTTP_404_NOT_FOUND, NotFoundMessage(product_id)),
        products |-> table]
  ELSE [response |-> Response(HTTP_204_NO_CONTENT, "", NoHeaders),
        products |-> delete(table, product_id)]

\* DELETE /products/<id>
delete_product(product_id) ==
  LET r == delete_product_result(products, product_id)
  IN /\ request' = Request("DELETE", "/products/<id>", product_id, NoHeaders, NoArgs, NoArgs)
     /\ response' = r.response
     /\ products' = r.products
     /\ UNCHANGED <<next_id, sessions>>

\* How the store binds a value that is compared with the boolean column
\* available: a strict binding takes booleans only, a database cast reads
\* the text as a boolean literal.
BooleanBinds == {"strict", "cast"}

\* The boolean a text is bound to under bind, if any.
BindBoolean(text, bind) ==
  IF bind = "cast" /\ text \in {"True", "False"}
  THEN [ok |-> TRUE, value |-> (text = "True")]
  ELSE [ok |-> FALSE, value |-> FALSE]

\* Faulty variant: the parameter is tested against None only.
GivenNotNone(args, key) == key \in DOMAIN args

\* request.args.get(key) is neither None nor the empty text.
Given(args, key) == key \in DOMAIN args /\ args[key] # ""

\* [product.serialize() for product in rows]
SerializeAll(rows) == [i \in 1..Len(rows) |-> serialize(rows[i])]

\* An exception no handler catches.
InternalServerError ==
  Abort(HTTP_500_INTERNAL_SERVER_ERROR, "Internal Server Error")

\* Faulty variant: category is looked at before name.
list_products_category_first(table, args, bind) ==
  IF Given(args, "category")
  THEN IF IsCategoryName(Upper(args.category))
       THEN Response(HTTP_200_OK,
                     SerializeAll(find_by_category(table, CategoryOf(Upper(args.category)))),
                     NoHeaders)
       ELSE InternalServerError
  ELSE IF Given(args, "name")
  THEN Response(HTTP_200_OK, SerializeAll(find_by_name(table, args.name)), NoHeaders)
  ELSE IF Given(args, "available")
  THEN LET availability == BindBoolean(args.available, bind)
       IN IF availability.ok
          THEN Response(HTTP_200_OK,
                        SerializeAll(find_by_availability(table, availability.value)),
                        NoHeaders)
          ELSE InternalServerError
  ELSE Response(HTTP_200_OK, SerializeAll(all(table)), NoHeaders)

\* Faulty variant: the category text is looked up without upper().
list_products_no_upper(table, args, bind) ==
  IF Given(args, "name")
  THEN Response(HTTP_200_OK, SerializeAll(find_by_name(table, args.name)), NoHeaders)
  ELSE IF Given(args, "category")
  THEN IF IsCategoryName(args.category)
       THEN Response(HTTP_200_OK,
                     SerializeAll(find_by_category(table, CategoryOf(args.category))),
                     NoHeaders)
       ELSE InternalServerError
  ELSE IF Given(args, "available")
  THEN LET availability == BindBoolean(args.available, bind)
       IN IF availability.ok
          THEN Response(HTTP_200_OK,
                        SerializeAll(find_by_availability(table, availability.value)),
                        NoHeaders)
          ELSE InternalServerError
  ELSE Response(HTTP_200_OK, SerializeAll(all(table)), NoHeaders)

\* What GET /products answers.
list_products_response(table, args, bind) ==
  IF Given(args, "name")
  THEN Response(HTTP_200_OK, SerializeAll(find_by_name(table, args.name)), NoHeaders)
  ELSE IF Given(args, "category")
  THEN IF IsCategoryName(Upper(args.category))
       THEN Response(HTTP_200_OK,
                     SerializeAll(find_by_category(table, CategoryOf(Upper(args.category)))),
                     NoHeaders)
       ELSE InternalServerError
  ELSE IF Given(args, "available")
  THEN LET availability == BindBoolean(args.available, bind)
       IN IF availability.ok
          THEN Response(HTTP_200_OK,
                        SerializeAll(find_by_availability(table, availability.value)),
                        NoHeaders)
          ELSE InternalServerError
  ELSE Response(HTTP_200_OK, SerializeAll(all(table)), NoHeaders)

\* GET /products
list_products(args, bind) ==
  /\ request' = Request("GET", "/products", 0, NoHeaders, NoArgs, args)
  /\ response' = list_products_response(products, args, bind)
  /\ UNCHANGED <<products, next_id, sessions>>

(***************************************************************************)
(* PUT /products/<id> step by step: one store session per request          *)
(***************************************************************************)
\* What a commit may write for a modified object: the columns whose value
\* differs from the loaded row, or the whole row.
FlushModes == {"changed", "row"}

\* The session of a PUT after Product.find and deserialize: the row as it was
\* loaded, and the object with the body's attributes assigned.
Session(product_id, data, loaded, product) ==
  [product_id |-> product_id, data |-> data, loaded |-> loaded, product |-> product]

\* db.session.commit() of a modified object against the store as it is now.
flush(table, session, mode) ==
  LET row == table[session.product_id]
      written == IF mode = "row"
                 THEN DOMAIN row
                 ELSE {k \in DOMAIN row : session.product[k] # session.loaded[k]}
  IN [table EXCEPT ![session.product_id] =
        [k \in DOMAIN row |-> IF k \in written THEN session.product[k] ELSE row[k]]]

\* PUT /products/<id> up to product.deserialize: the content type is checked,
\* the body parsed, the row found and the object modified in the session.
\* Nothing is written yet. The paths that answer 415, 400 or 404 end here
\* and are update_product.
update_product_find(product_id, headers, data) ==
  /\ Cardinality(sessions) < MaxInflight
  /\ check_content_type(headers, "application/json")
  /\ get_json(data).ok
  /\ find(products, product_id) # {}
  /\ LET product == deserialize(products[product_id], get_json(data).data)
     IN /\ product.ok
        /\ sessions' = sessions \cup
                         {Session(product_id, data, products[product_id], product.obj)}
  /\ UNCHANGED <<products, next_id, request, response>>

\* PUT /products/<id> from product.update() on: the commit, then the answer
\* serialized from the row as the store now holds it. A row deleted in the
\* meantime makes the commit raise.
update_product_commit_result(table, session, mode) ==
  IF session.product_id \in DOMAIN table
  THEN LET saved == flush(table, session, mode)
       IN [response |-> Response(HTTP_200_OK, serialize(saved[session.product_id]),
                                 NoHeaders),
           products |-> saved]
  ELSE [response |-> InternalServerError, products |-> table]

update_product_commit(session, mode) ==
  LET r == update_product_commit_result(products, session, mode)
  IN /\ session \in sessions
     /\ sessions' = sessions \ {session}
     /\ request' = Request("PUT", "/products/<id>", session.product_id, JsonHeaders,
                           session.data, NoArgs)
     /\ response' = r.response
     /\ products' = r.products
     /\ UNCHANGED next_id

(***************************************************************************)
(* Specifications                                                          *)
(***************************************************************************)
Init ==
  /\ products = [i \in {} |-> i]
  /\ next_id = 1
  /\ request = NoRequest
  /\ response = NoResponse
  /\ sessions = {}

\* The write side: every content type and body, listing without a filter.
Next ==
  \/ healthcheck
  \/ \E headers \in HeaderSets, data \in WriteBodies : create_products(headers, data)
  \/ \E args \in {NoArgs}, bind \in BooleanBinds : list_products(args, bind)
  \/ \E product_id \in PathIds : get_products(product_id)
  \/ \E product_id \in PathIds, headers \in HeaderSets, data \in WriteBodies :
       update_product(product_id, headers, data)
  \/ \E product_id \in PathIds : delete_product(product_id)

Spec == Init /\ [][Next]_vars

\* Bodies of the listing specification: valid, two names, two categories,
\* both availabilities.
ListBodies ==
  {d \in Bodies({"a", "b"}, {"d1"}, {TRUE, FALSE}, {"FOOD", "CLOTHS"}) :
     "name" \in DOMAIN d}

\* The texts a query parameter takes when it is in the query string.
ArgTexts ==
  [name |-> {"", "a"},
   category |-> {"", "food", "bogus"},
   available |-> {"", "True", "False"}]

\* Every query string over name, category and available.
QueryArgs ==
  UNION {{f \in [keys -> UNION {ArgTexts[k] : k \in DOMAIN ArgTexts}] :
            \A k \in keys : f[k] \in ArgTexts[k]} :
         keys \in SUBSET (DOMAIN ArgTexts)}

\* The listing side: valid writes, every query string.
NextList ==
  \/ \E data \in ListBodies : create_products(JsonHeaders, data)
  \/ \E args \in QueryArgs, bind \in BooleanBinds : list_products(args, bind)
  \/ \E product_id \in PathIds, data \in ListBodies :
       update_product(product_id, JsonHeaders, data)
  \/ \E product_id \in PathIds : delete_product(product_id)

SpecList == Init /\ [][NextList]_vars

\* The reading side: valid writes and every read, with every query string.
NextRead ==
  \/ healthcheck
  \/ \E data \in ListBodies : create_products(JsonHeaders, data)
  \/ \E args \in QueryArgs, bind \in BooleanBinds : list_products(args, bind)
  \/ \E product_id \in PathIds : get_products(product_id)
  \/ \E product_id \in PathIds, data \in ListBodies :
       update_product(product_id, JsonHeaders, data)
  \/ \E product_id \in PathIds : delete_product(product_id)

SpecRead == Init /\ [][NextRead]_vars

\* Bodies of concurrent writers: any two differ, and no one of them carries
\* both the name "b" and the description "d2".
ConcBodies ==
  {d \in Bodies({"a", "b"}, {"d1", "d2"}, {TRUE}, {"FOOD"}) :
     "name" \in DOMAIN d /\ ~(d.name = "b" /\ d.description = "d2")}

\* Concurrent requests: POST, GET and DELETE in one step each, PUT in two
\* steps with other requests in between.
NextConc ==
  \/ \E data \in ConcBodies : create_products(JsonHeaders, data)
  \/ \E product_id \in PathIds : get_products(product_id)
  \/ \E product_id \in PathIds, data \in ConcBodies :
       update_product_find(product_id, JsonHeaders, data)
  \/ \E session \in sessions, mode \in FlushModes : update_product_commit(session, mode)
  \/ \E product_id \in PathIds : delete_product(product_id)

SpecConc == Init /\ [][NextConc]_vars

(***************************************************************************)
(* Properties                                                              *)
(***************************************************************************)
\* The request was sent as application/json.
IsJson(req) == "Content_Type" \in DOMAIN req.headers /\ req.headers.Content_Type = "application/json"

\* A body the record model accepts: it has a name and its category names a member.
ValidBody(data) == "name" \in DOMAIN data /\ IsCategoryName(Upper(data.category))

\* The wire form of a body's fields equals the wire form in a serialized record.
SameFields(data, wire) ==
  /\ wire.name = data.name
  /\ wire.description = data.description
  /\ wire.price = data.price
  /\ wire.available = data.available
  /\ wire.category = Upper(data.category)

\* The set of the elements of a sequence.
Range(seq) == {seq[i] : i \in 1..Len(seq)}

\* The request that was answered last, by route.
IsCreate(req) == req.method = "POST" /\ req.rule = "/products"

IsList(req) == req.method = "GET" /\ req.rule = "/products"

IsRead(req) == req.method = "GET" /\ req.rule = "/products/<id>"

IsUpdate(req) == req.method = "PUT" /\ req.rule = "/products/<id>"

IsDelete(req) == req.method = "DELETE" /\ req.rule = "/products/<id>"

\* C1: create-then-read. A POST of a valid JSON body is answered 201 with the
\* serialized new record (the fields of the body under a new id) and a
\* Location for that id, and a GET on that Location, with no write between,
\* answers 200 with a body equal to the POST's body.
C1_CreateThenRead ==
  (IsCreate(request) /\ IsJson(request) /\ ValidBody(request.data)) =>
    /\ response.status = HTTP_201_CREATED
    /\ response.body.id = next_id - 1
    /\ SameFields(request.data, response.body)
    /\ response.headers = [Location |-> <<"products", response.body.id>>]
    /\ LET read == get_products_response(products, response.headers.Location[2])
       IN /\ read.status = HTTP_200_OK
          /\ read.body = response.body

C1_Witness ==
  /\ IsCreate(request) /\ IsJson(request) /\ ValidBody(request.data)
  /\ response.status = HTTP_201_CREATED
  /\ response.body.id # request.data.id
  /\ Cardinality(DOMAIN products) > 1

\* The stored rows that pass a filter, serialized, in the order of the store.
Stored(Keep(_)) ==
  SerializeAll(RowsInIdOrder(products, {i \in DOMAIN products : Keep(products[i])}))

\* The query string restricted to one of its parameters.
Only(args, key) == [k \in {key} |-> args[k]]

\* The number of parameters the query string gives a value.
GivenCount(args) == Cardinality({k \in DOMAIN args : Given(args, k)})

\* C2: filter precedence. When more than one of name, category, available
\* is given in the query string of GET /products, the answer is the answer
\* to the query string with the highest-precedence parameter alone (name
\* over category over available); with a name N given it is 200 with
\* exactly the stored products whose name is N, whatever their category.
C2_FilterPrecedence ==
  (IsList(request) /\ GivenCount(request.args) > 1) =>
    LET args == request.args
        HasName(row) == row.name = args.name
    IN /\ Given(args, "name") =>
            /\ response = Response(HTTP_200_OK, Stored(HasName), NoHeaders)
            /\ \A bind \in BooleanBinds :
                 response = list_products_response(products, Only(args, "name"), bind)
       /\ (~Given(args, "name") /\ Given(args, "category")) =>
            \A bind \in BooleanBinds :
              response = list_products_response(products, Only(args, "category"), bind)

C2_Witness ==
  /\ IsList(request)
  /\ Given(request.args, "name") /\ Given(request.args, "category")
  /\ IsCategoryName(Upper(request.args.category))
  /\ response.status = HTTP_200_OK
  /\ Len(response.body) = 1
  /\ response.body[1].category # Upper(request.args.category)
  /\ \E i \in DOMAIN products :
       /\ products[i].category = CategoryOf(Upper(request.args.category))
       /\ products[i].name # request.args.name

\* C3: filter correctness. After any creates, updates and deletes,
\* GET /products?name=N answers exactly the stored products named N,
\* GET /products?category=C those whose category is the member that C
\* names after upper-casing, and GET /products with no query parameter
\* every stored product; each stored product appears once.
C3_FilterNameCategory ==
  IsList(request) =>
    LET args == request.args
        wire == {serialize(products[i]) : i \in DOMAIN products}
    IN /\ (DOMAIN args = {"name"} /\ Given(args, "name")) =>
            /\ response.status = HTTP_200_OK
            /\ Range(response.body) = {w \in wire : w.name = args.name}
            /\ Len(response.body) = Cardinality(Range(response.body))
       /\ (DOMAIN args = {"category"} /\ IsCategoryName(Upper(args.category))) =>
            /\ response.status = HTTP_200_OK
            /\ Range(response.body) = {w \in wire : w.category = Upper(args.category)}
            /\ Len(response.body) = Cardinality(Range(response.body))
       /\ (DOMAIN args = {}) =>
            /\ response.status = HTTP_200_OK
            /\ Range(response.body) = wire
            /\ Len(response.body) = Cardinality(DOMAIN products)

C3_Witness ==
  /\ IsList(request)
  /\ DOMAIN request.args = {"category"}
  /\ request.args.category = "food"
  /\ response.status = HTTP_200_OK
  /\ Len(response.body) = 1
  /\ Cardinality(DOMAIN products) > 1

\* C4: filter correctness for availability. GET /products?available=b with
\* no name or category parameter, b the text of a boolean, answers exactly
\* the stored products whose available flag is that boolean.
C4_FilterAvailability ==
  (/\ IsList(request)
   /\ DOMAIN request.args = {"available"}
   /\ request.args.available \in {"True", "False"}) =>
    LET wire == {serialize(products[i]) : i \in DOMAIN products}
    IN /\ response.status = HTTP_200_OK
       /\ Range(response.body) =
            {w \in wire : w.available = (request.args.available = "True")}

\* C5: client input errors never change the store. A POST /products or a
\* PUT /products/<id> answered 400 or 415 leaves the stored records as they
\* were, also when the PUT's body failed after fields of the loaded record
\* were assigned.
C5_ClientErrorsKeepStore ==
  [][((IsCreate(request') \/ IsUpdate(request'))
      /\ response'.status \in {HTTP_400_BAD_REQUEST, HTTP_415_UNSUPPORTED_MEDIA_TYPE})
     => (products' = products /\ next_id' = next_id)]_vars

C5_Witness ==
  /\ IsUpdate(request) /\ IsJson(request)
  /\ response.status = HTTP_400_BAD_REQUEST
  /\ request.product_id \in DOMAIN products
  /\ "name" \in DOMAIN request.data
  /\ request.data.name # products[request.product_id].name
  /\ request.data.description # products[request.product_id].description

\* C6: DELETE /products/X on a stored id X answers 204 with an empty body
\* and removes that record only: GET and DELETE on X then answer 404, the
\* list of GET /products is shorter by one, the other records are unchanged.
C6_DeleteRemovesOne ==
  [][/\ (IsDelete(request') /\ request'.product_id \in DOMAIN products) =>
          LET X == request'.product_id
          IN /\ response' = Response(HTTP_204_NO_CONTENT, "", NoHeaders)
             /\ DOMAIN products' = DOMAIN products \ {X}
             /\ \A i \in DOMAIN products' : products'[i] = products[i]
             /\ get_products_response(products', X).status = HTTP_404_NOT_FOUND
             /\ delete_product_result(products', X).response.status = HTTP_404_NOT_FOUND
             /\ \A bind \in BooleanBinds :
                  Len(list_products_response(products', NoArgs, bind).body)
                    = Len(list_products_response(products, NoArgs, bind).body) - 1
     /\ (/\ IsDelete(request) /\ response.status = HTTP_204_NO_CONTENT
         /\ (IsRead(request') \/ IsDelete(request'))
         /\ request'.product_id = request.product_id) =>
          response'.status = HTTP_404_NOT_FOUND]_vars

C6_Witness ==
  /\ IsDelete(request)
  /\ response.status = HTTP_204_NO_CONTENT
  /\ request.product_id \notin DOMAIN products
  /\ products # [i \in {} |-> i]

\* C7: PUT /products/X on a stored id X with a valid body answers 200 with
\* the serialized updated record; the record keeps the id X whatever id the
\* body carries, takes the body's other fields (so a field whose value is
\* the same in the body does not change, and a body that differs from the
\* record in description only changes description only), the other records
\* are unchanged, and a GET on X returns the updated record.
C7_UpdateInPlace ==
  [][(/\ IsUpdate(request') /\ IsJson(request') /\ ValidBody(request'.data)
      /\ request'.product_id \in DOMAIN products) =>
       LET X == request'.product_id
           data == request'.data
           before == serialize(products[X])
       IN /\ response'.status = HTTP_200_OK
          /\ response'.body = serialize(products'[X])
          /\ response'.body.id = X
          /\ SameFields(data, response'.body)
          /\ DOMAIN products' = DOMAIN products
          /\ \A i \in DOMAIN products \ {X} : products'[i] = products[i]
          /\ get_products_response(products', X)
               = Response(HTTP_200_OK, response'.body, NoHeaders)
          /\ (/\ data.name = before.name /\ data.price = before.price
              /\ data.available = before.available
              /\ Upper(data.category) = before.category) =>
               products' = [products EXCEPT ![X].description = data.description]
          /\ next_id' = next_id]_vars

C7_Witness ==
  /\ IsUpdate(request) /\ IsJson(request) /\ ValidBody(request.data)
  /\ response.status = HTTP_200_OK
  /\ response.body.id = request.product_id
  /\ request.data.id # request.product_id
  /\ request.data.id \in DOMAIN products
  /\ Cardinality(DOMAIN products) > 1
  /\ \E i \in DOMAIN products : products[i].description # response.body.description

\* What C8 says of a step that answers a request on an id no record has.
NotFoundAnswer ==
  /\ response'.status = HTTP_404_NOT_FOUND
  /\ response'.body = [message |-> <<"No product found with id ", request'.product_id>>]
  /\ products' = products
  /\ next_id' = next_id

\* C8 as stated: for an id X that no stored record has, GET, PUT (sent as
\* application/json) and DELETE on /products/X answer 404 with the message
\* "No product found with id X", and the store is unchanged.
C8_NotFound_AnyBody ==
  [][(/\ IsRead(request') \/ (IsUpdate(request') /\ IsJson(request')) \/ IsDelete(request')
      /\ request'.product_id \notin DOMAIN products) =>
       NotFoundAnswer]_vars

\* C8, amended: for an id X that no stored record has, GET, DELETE, and PUT
\* sent as application/json with a body that parses as JSON, answer 404
\* with the message "No product found with id X", and the store is
\* unchanged.
C8_NotFound ==
  [][(/\ \/ IsRead(request')
         \/ IsUpdate(request') /\ IsJson(request') /\ get_json(request'.data).ok
         \/ IsDelete(request')
      /\ request'.product_id \notin DOMAIN products) =>
       NotFoundAnswer]_vars

C8_Witness ==
  /\ IsUpdate(request) /\ IsJson(request) /\ ValidBody(request.data)
  /\ response.status = HTTP_404_NOT_FOUND
  /\ request.product_id \notin DOMAIN products
  /\ request.product_id < next_id
  /\ request.product_id > 0
  /\ products # [i \in {} |-> i]

\* C9: the content type is validated before the body. A POST /products
\* with no Content-Type header, or one that is not application/json, is
\* answered 415 whatever its body; a POST sent as application/json whose
\* body has no name key is answered 400.
C9_ContentTypeFirst ==
  IsCreate(request) =>
    /\ ("Content_Type" \notin DOMAIN request.headers) =>
         response.status = HTTP_415_UNSUPPORTED_MEDIA_TYPE
    /\ ("Content_Type" \in DOMAIN request.headers
          /\ request.headers.Content_Type # "application/json") =>
         response.status = HTTP_415_UNSUPPORTED_MEDIA_TYPE
    /\ (IsJson(request) /\ "name" \notin DOMAIN request.data) =>
         response.status = HTTP_400_BAD_REQUEST

C9_Witness ==
  /\ IsCreate(request)
  /\ "Content_Type" \notin DOMAIN request.headers
  /\ "name" \notin DOMAIN request.data
  /\ response.status = HTTP_415_UNSUPPORTED_MEDIA_TYPE
  /\ products # [i \in {} |-> i]

\* C10: GET /products?category=V with no name parameter, where V in upper
\* case names no member of Category, is answered 400.
C10_UnknownCategoryIs400 ==
  (/\ IsList(request)
   /\ "name" \notin DOMAIN request.args
   /\ Given(request.args, "category")
   /\ ~IsCategoryName(Upper(request.args.category))) =>
    response.status = HTTP_400_BAD_REQUEST

\* C11: id uniqueness and stability. Over every sequence of POST, PUT and
\* DELETE requests: a stored record is the only one with its id, the id of
\* a stored record does not change, and the id a POST assigns is one that
\* no record was given before, also when that record has been deleted
\* (every id given so far is below next_id, which never decreases, and a
\* POST gives next_id).
C11_IdUniqueStable ==
  [][/\ next_id' >= next_id
     /\ \A i \in DOMAIN products' : products'[i].id = i /\ i < next_id'
     /\ \A i \in DOMAIN products \cap DOMAIN products' : products'[i].id = products[i].id
     /\ (DOMAIN products' \ DOMAIN products) \subseteq {next_id}
     /\ (IsCreate(request') /\ response'.status = HTTP_201_CREATED) =>
          /\ response'.body.id = next_id
          /\ next_id \notin DOMAIN products
          /\ next_id' = next_id + 1
          /\ DOMAIN products' = DOMAIN products \cup {next_id}]_vars

C11_Witness ==
  /\ IsCreate(request)
  /\ response.status = HTTP_201_CREATED
  /\ response.body.id > 1
  /\ DOMAIN products = {response.body.id}

\* C12: name invariant. Over every sequence of POST and PUT requests, each
\* stored record has a name, and the name is not the empty text; a POST or
\* PUT whose body carries the name "" stores no record with an empty name.
C12_NameNonEmpty ==
  \A i \in DOMAIN products :
    /\ "name" \in DOMAIN products[i]
    /\ products[i].name # ""

\* C13: idempotent read. GET /products/<id>, GET /products with any query
\* string and GET /health leave the store as it is, so the answer a GET on
\* any id would get is the same before and after a read, and a GET on the
\* id just read, with no write between, gets the same status and body.
C13_ReadsKeepStore ==
  [][(request'.method = "GET") =>
       /\ products' = products
       /\ next_id' = next_id
       /\ \A X \in PathIds :
            get_products_response(products', X) = get_products_response(products, X)
       /\ IsRead(request') =>
            response' = get_products_response(products', request'.product_id)]_vars

C13_Witness ==
  /\ IsRead(request)
  /\ response.status = HTTP_200_OK
  /\ response.body.id = request.product_id
  /\ Cardinality(DOMAIN products) > 1

\* C15 as stated: in PUT /products/<id> the content type is checked first,
\* then the existence of the id, then the body: a PUT without Content-Type
\* application/json is answered 415 also when the id is not stored, and a
\* PUT sent as application/json to an id that is not stored is answered
\* 404 whatever its body, never 400.
C15_PutCheckOrder_AnyBody ==
  IsUpdate(request) =>
    /\ ~IsJson(request) => response.status = HTTP_415_UNSUPPORTED_MEDIA_TYPE
    /\ (IsJson(request) /\ request.product_id \notin DOMAIN products) =>
         response.status = HTTP_404_NOT_FOUND

\* C15, amended: in PUT /products/<id> the content type is checked first,
\* then that the body parses as JSON, then the existence of the id, then the
\* fields of the body: a PUT without Content-Type application/json is
\* answered 415 also when the id is not stored; a PUT sent as
\* application/json whose body does not parse is answered 400 also when the
\* id is not stored; and one whose body parses is answered 404 when the id
\* is not stored, also when the body fails deserialization.
C15_PutCheckOrder ==
  IsUpdate(request) =>
    /\ ~IsJson(request) => response.status = HTTP_415_UNSUPPORTED_MEDIA_TYPE
    /\ (IsJson(request) /\ ~get_json(request.data).ok) =>
         response.status = HTTP_400_BAD_REQUEST
    /\ (/\ IsJson(request) /\ get_json(request.data).ok
        /\ request.product_id \notin DOMAIN products) =>
         response.status = HTTP_404_NOT_FOUND

C15_Witness ==
  /\ IsUpdate(request) /\ IsJson(request)
  /\ get_json(request.data).ok
  /\ ~ValidBody(request.data)
  /\ request.product_id \notin DOMAIN products
  /\ response.status = HTTP_404_NOT_FOUND
  /\ products # [i \in {} |-> i]

\* The query string without the parameters whose value is the empty text.
NonEmpty(args) == [k \in {j \in DOMAIN args : args[j] # ""} |-> args[k]]

\* Two answers of GET /products agree: the same status and, when it is 200,
\* the same list of records.
SameAnswer(a, b) ==
  /\ a.status = b.status
  /\ (a.status = HTTP_200_OK) => a.body = b.body

\* C16: a query parameter of GET /products whose value is the empty text
\* counts as absent. The answer is the answer to the query string without
\* its empty parameters: an empty name does not filter by name but falls
\* through to category, then to available, and with no non-empty parameter
\* the answer is every stored product.
C16_EmptyParamIsAbsent ==
  (IsList(request) /\ NonEmpty(request.args) # request.args) =>
    LET args == request.args
        InCategory(row) == row.category = CategoryOf(Upper(args.category))
        Every(row) == TRUE
    IN /\ \E bind \in BooleanBinds :
            SameAnswer(response, list_products_response(products, NonEmpty(args), bind))
       /\ (DOMAIN NonEmpty(args) = {}) =>
            response = Response(HTTP_200_OK, Stored(Every), NoHeaders)
       /\ (/\ "name" \in DOMAIN args /\ args.name = ""
           /\ "category" \in DOMAIN args /\ IsCategoryName(Upper(args.category))) =>
            response = Response(HTTP_200_OK, Stored(InCategory), NoHeaders)
       /\ (/\ "name" \in DOMAIN args /\ args.name = ""
           /\ DOMAIN NonEmpty(args) = {"available"}) =>
            \E bind \in BooleanBinds :
              SameAnswer(response,
                         list_products_response(products, Only(args, "available"), bind))

C16_Witness ==
  /\ IsList(request)
  /\ request.args = [name |-> "", category |-> "", available |-> ""]
  /\ response.status = HTTP_200_OK
  /\ Len(response.body) > 1
  /\ \A i \in DOMAIN products : products[i].name # ""

\* C14: under every interleaving of concurrent POST, PUT, DELETE and GET
\* requests, each stored record and each record a GET returns has all its
\* fields from one single write: its fields are those of one of the bodies
\* the writers sent.
C14_WriteAtomicity ==
  /\ \A i \in DOMAIN products :
       \E data \in ConcBodies : SameFields(data, serialize(products[i]))
  /\ (IsRead(request) /\ response.status = HTTP_200_OK) =>
       \E data \in ConcBodies : SameFields(data, response.body)

====
